---- MODULE Spec2Model ----
(***************************************************************************)
(* Model of the message service of src/app/server.py: the POST /messages/  *)
(* handler post_message, run by several concurrent requests against one    *)
(* PostgreSQL store (tables users and messages) at the engine's default    *)
(* isolation level, READ COMMITTED.                                        *)
(*                                                                         *)
(* Every request is one transaction.  A statement sees the rows committed  *)
(* when it runs plus the rows its own transaction wrote.  SELECT ... FOR   *)
(* UPDATE locks the row it returns and waits while another transaction     *)
(* holds that row; it returns nothing, without waiting, when no committed  *)
(* row matches.  An INSERT that collides on a unique index with a row      *)
(* another transaction has inserted but not committed waits for that       *)
(* transaction; it fails with IntegrityError when the colliding row is     *)
(* committed.  Values drawn from a serial sequence are never given back.   *)
(* The column created_at (server clock) plays no part in any step and is   *)
(* left out of the rows.                                                   *)
(***************************************************************************)
EXTENDS Integers, Sequences, FiniteSets, TLC

\* ---- bounds of the model ------------------------------------------------
NumProcs == 3
MaxRequests == 4
MaxAborts == 1
Backlog == 9
MaxLiveRequests == 2

\* ---- program constants --------------------------------------------------
WindowLimit == 10
InitialMsgNum == 0

Procs == 1..NumProcs
Senders == {"alice", "bob"}
Texts == {"x"}

VARIABLES
    users,              \* committed rows of table users
    messages,           \* committed rows of table messages
    users_id_seq,       \* last value drawn from the serial of users.id
    messages_id_seq,    \* last value drawn from the serial of messages.message_id
    pc,                 \* position of each request inside post_message
    msg,                \* the MessageRequest of each request
    user,               \* the User object held by each request
    created,            \* the request built the User object itself (line 139)
    rowlock,            \* id of the users row locked by each transaction, 0: none
    new_message,        \* the Message object of each request
    last_10_messages,   \* result of the window query of each request
    response,           \* MessagesListResponse.messages of each request
    err,                \* exception that ended the request, "" when none
    started,            \* requests received so far
    aborts,             \* transient failures so far
    committed_at_insert \* history: ids committed when the request's INSERT ran

vars == <<users, messages, users_id_seq, messages_id_seq, pc, msg, user,
          created, rowlock, new_message, last_10_messages, response, err,
          started, aborts, committed_at_insert>>

NoUser == [id |-> 0, username |-> "", last_msg_num |-> 0]
NoMessage == [message_id |-> 0, sender_name |-> "", text |-> "", user_msg_num |-> 0]
NoRequest == [sender_name |-> "", text |-> ""]

InTxn == {"select", "insert_user", "flush", "window", "commit"}
Flushed == {"flush", "window", "commit"}

Min(a, b) == IF a <= b THEN a ELSE b

\* ---- schema -------------------------------------------------------------

\* User(username=msg.sender_name, last_msg_num=0), id not yet generated
NewUserOne(name) == [id |-> 0, username |-> name, last_msg_num |-> 1]

NewUser(name) == [id |-> 0, username |-> name, last_msg_num |-> InitialMsgNum]

\* unique index on users.username, committed rows
UsernameTaken(name) == \E u \in users : u.username = name

\* unique constraint uq_sender_msgnum, committed rows
MsgNumTakenNever(name, num) == FALSE

MsgNumTaken(name, num) ==
    \E m \in messages : m.sender_name = name /\ m.user_msg_num = num

\* user.last_msg_num += 1
Decremented(u) == [u EXCEPT !.last_msg_num = @ - 1]

Incremented(u) == [u EXCEPT !.last_msg_num = @ + 1]

\* user_msg_counter = user.last_msg_num, read after the increment
UserMsgCounterStale(u) == u.last_msg_num - 1

UserMsgCounter(u) == u.last_msg_num

\* .with_for_update() of the select
WithForUpdate == TRUE

\* ---- the window query ---------------------------------------------------

MaxId(S) == CHOOSE i \in {m.message_id : m \in S} :
                \A j \in {m.message_id : m \in S} : j <= i

RECURSIVE OrderByIdDescFrom(_)
OrderByIdDescFrom(S) ==
    IF S = {} THEN <<>>
    ELSE LET top == CHOOSE m \in S : m.message_id = MaxId(S)
         IN <<top>> \o OrderByIdDescFrom(S \ {top})

MinId(S) == CHOOSE i \in {m.message_id : m \in S} :
                \A j \in {m.message_id : m \in S} : i <= j

RECURSIVE OrderByIdAscFrom(_)
OrderByIdAscFrom(S) ==
    IF S = {} THEN <<>>
    ELSE LET low == CHOOSE m \in S : m.message_id = MinId(S)
         IN <<low>> \o OrderByIdAscFrom(S \ {low})

OrderByIdAsc(S) == OrderByIdAscFrom(S)

\* .order_by(Message.message_id.desc())
OrderByIdDesc(S) == OrderByIdDescFrom(S)

\* .limit(10)
Limit(s, n) == SubSeq(s, 1, Min(n, Len(s)))

VisibleDirty(p) ==
    messages \cup {new_message[q] : q \in {r \in Procs : pc[r] \in {"window", "commit"}}}

\* rows of messages a statement of p's transaction sees
Visible(p) ==
    messages \cup (IF new_message[p].message_id # 0 THEN {new_message[p]} ELSE {})

\* .where(Message.message_id <= new_message.message_id)
WhereAll(S, upto) == S

WhereBelow(S, upto) == {m \in S : m.message_id < upto}

WhereUpTo(S, upto) == {m \in S : m.message_id <= upto}

Last10(p) ==
    Limit(OrderByIdDesc(WhereUpTo(Visible(p), new_message[p].message_id)),
          WindowLimit)

MessageResponse(m) ==
    [message_id |-> m.message_id, sender_name |-> m.sender_name,
     text |-> m.text, user_msg_num |-> m.user_msg_num]

MessagesListResponse(s) == [i \in 1..Len(s) |-> MessageResponse(s[i])]

\* ---- transactions -------------------------------------------------------

NextMessageIdFromMax == IF messages = {} THEN 1 ELSE MaxId(messages) + 1

\* the value the serial of messages.message_id hands to the next INSERT
NextMessageId == messages_id_seq + 1

RowNeverLocked(p, id) == FALSE

TableLockedByOther(p, id) == \E q \in Procs \ {p} : rowlock[q] # 0

\* another transaction holds the lock of the users row id
RowLockedByOther(p, id) == \E q \in Procs \ {p} : rowlock[q] = id

\* another transaction has inserted, and not committed, a users row of name
PendingUserOfOther(p, name) ==
    \E q \in Procs \ {p} :
        pc[q] \in Flushed /\ created[q] /\ user[q].username = name

\* another transaction has inserted, and not committed, a message (name, num)
PendingMsgOfOther(p, name, num) ==
    \E q \in Procs \ {p} :
        /\ new_message[q].message_id # 0
        /\ pc[q] \in {"window", "commit"}
        /\ new_message[q].sender_name = name
        /\ new_message[q].user_msg_num = num

\* the SELECT ... FOR UPDATE of p waits for the lock of its row
SelectWaits(p) ==
    LET rows == {u \in users : u.username = msg[p].sender_name} IN
    /\ Cardinality(rows) = 1
    /\ WithForUpdate
    /\ RowLockedByOther(p, (CHOOSE r \in rows : TRUE).id)

\* the INSERT INTO users of p waits on the unique index of username
InsertUserWaits(p) ==
    /\ ~UsernameTaken(user[p].username)
    /\ PendingUserOfOther(p, user[p].username)

\* the UPDATE users / INSERT INTO messages of p waits for the row lock or on
\* uq_sender_msgnum
FlushWaits(p) ==
    \/ RowLockedByOther(p, user[p].id)
    \/ /\ ~MsgNumTaken(msg[p].sender_name, user[p].last_msg_num + 1)
       /\ PendingMsgOfOther(p, msg[p].sender_name, user[p].last_msg_num + 1)

\* the store after the transaction of p is rolled back
RollbackUsersKeepInsert(p) ==
    IF created[p] /\ user[p].id # 0
    THEN users \cup {[user[p] EXCEPT !.last_msg_num = InitialMsgNum]}
    ELSE users

RollbackUsers(p) == users

RollbackMessagesKeepInsert(p) ==
    IF new_message[p].message_id # 0
    THEN messages \cup {new_message[p]}
    ELSE messages

RollbackMessages(p) == messages

RaiseRetry(p, e) ==
    /\ users' = RollbackUsers(p)
    /\ messages' = RollbackMessages(p)
    /\ rowlock' = [rowlock EXCEPT ![p] = 0]
    /\ pc' = [pc EXCEPT ![p] = IF e = "aborted" THEN "select" ELSE "failed"]
    /\ err' = [err EXCEPT ![p] = e]

RaiseKeepLock(p, e) ==
    /\ users' = RollbackUsers(p)
    /\ messages' = RollbackMessages(p)
    /\ rowlock' = rowlock
    /\ pc' = [pc EXCEPT ![p] = "failed"]
    /\ err' = [err EXCEPT ![p] = e]

\* the exception leaves "async with db.begin()": rollback, locks released
Raise(p, e) ==
    /\ users' = RollbackUsers(p)
    /\ messages' = RollbackMessages(p)
    /\ rowlock' = [rowlock EXCEPT ![p] = 0]
    /\ pc' = [pc EXCEPT ![p] = "failed"]
    /\ err' = [err EXCEPT ![p] = e]

Init ==
    /\ users = {}
    /\ messages = {}
    /\ users_id_seq = 0
    /\ messages_id_seq = 0
    /\ pc = [p \in Procs |-> "idle"]
    /\ msg = [p \in Procs |-> NoRequest]
    /\ user = [p \in Procs |-> NoUser]
    /\ created = [p \in Procs |-> FALSE]
    /\ rowlock = [p \in Procs |-> 0]
    /\ new_message = [p \in Procs |-> NoMessage]
    /\ last_10_messages = [p \in Procs |-> <<>>]
    /\ response = [p \in Procs |-> <<>>]
    /\ err = [p \in Procs |-> ""]
    /\ started = 0
    /\ aborts = 0
    /\ committed_at_insert = [p \in Procs |-> {}]

\* a request arrives and its transaction begins (db.begin())
Begin(p) ==
    /\ pc[p] \in {"idle", "done", "failed"}
    /\ started < MaxRequests
    /\ \E s \in Senders, t \in Texts :
          msg' = [msg EXCEPT ![p] = [sender_name |-> s, text |-> t]]
    /\ started' = started + 1
    /\ pc' = [pc EXCEPT ![p] = "select"]
    /\ user' = [user EXCEPT ![p] = NoUser]
    /\ created' = [created EXCEPT ![p] = FALSE]
    /\ new_message' = [new_message EXCEPT ![p] = NoMessage]
    /\ last_10_messages' = [last_10_messages EXCEPT ![p] = <<>>]
    /\ response' = [response EXCEPT ![p] = <<>>]
    /\ err' = [err EXCEPT ![p] = ""]
    /\ committed_at_insert' = [committed_at_insert EXCEPT ![p] = {}]
    /\ UNCHANGED <<users, messages, users_id_seq, messages_id_seq, rowlock, aborts>>

\* select(User).where(username == sender_name).with_for_update(),
\* scalar_one_or_none(), and the User object built when there is no row
SelectForUpdate(p) ==
    /\ pc[p] = "select"
    /\ ~SelectWaits(p)
    /\ LET rows == {u \in users : u.username = msg[p].sender_name} IN
       IF Cardinality(rows) > 1
       THEN /\ Raise(p, "MultipleResultsFound")
            /\ UNCHANGED <<user, created>>
       ELSE IF rows = {}
       THEN /\ user' = [user EXCEPT ![p] = NewUser(msg[p].sender_name)]
            /\ created' = [created EXCEPT ![p] = TRUE]
            /\ pc' = [pc EXCEPT ![p] = "insert_user"]
            /\ UNCHANGED <<users, messages, rowlock, err>>
       ELSE LET u == CHOOSE r \in rows : TRUE IN
            /\ rowlock' = [rowlock EXCEPT ![p] = IF WithForUpdate THEN u.id ELSE 0]
            /\ user' = [user EXCEPT ![p] = u]
            /\ pc' = [pc EXCEPT ![p] = "flush"]
            /\ UNCHANGED <<users, messages, created, err>>
    /\ UNCHANGED <<users_id_seq, messages_id_seq, msg, new_message,
                   last_10_messages, response, started, aborts,
                   committed_at_insert>>

\* db.add(user); await db.flush(): INSERT INTO users
InsertUser(p) ==
    /\ pc[p] = "insert_user"
    /\ ~InsertUserWaits(p)
    /\ users_id_seq' = users_id_seq + 1
    /\ IF UsernameTaken(user[p].username)
       THEN /\ Raise(p, "IntegrityError")
            /\ UNCHANGED user
       ELSE /\ user' = [user EXCEPT ![p].id = users_id_seq + 1]
            /\ rowlock' = [rowlock EXCEPT ![p] = users_id_seq + 1]
            /\ pc' = [pc EXCEPT ![p] = "flush"]
            /\ UNCHANGED <<users, messages, err>>
    /\ UNCHANGED <<messages_id_seq, msg, created, new_message,
                   last_10_messages, response, started, aborts,
                   committed_at_insert>>

\* user.last_msg_num += 1; Message(...); db.add; await db.flush():
\* UPDATE users SET last_msg_num, INSERT INTO messages
FlushMessage(p) ==
    /\ pc[p] = "flush"
    /\ ~FlushWaits(p)
    /\ LET incremented == Incremented(user[p])
           num == UserMsgCounter(incremented)
           name == msg[p].sender_name
       IN
       /\ messages_id_seq' = NextMessageId
       /\ IF MsgNumTaken(name, num)
          THEN /\ Raise(p, "IntegrityError")
               /\ UNCHANGED <<user, new_message, committed_at_insert>>
          ELSE /\ user' = [user EXCEPT ![p] = incremented]
               /\ committed_at_insert' = [committed_at_insert EXCEPT ![p] =
                      {m.message_id : m \in messages}]
               /\ rowlock' = [rowlock EXCEPT ![p] = user[p].id]
               /\ new_message' = [new_message EXCEPT ![p] =
                      [message_id |-> NextMessageId, sender_name |-> name,
                       text |-> msg[p].text, user_msg_num |-> num]]
               /\ pc' = [pc EXCEPT ![p] = "window"]
               /\ UNCHANGED <<users, messages, err>>
    /\ UNCHANGED <<users_id_seq, msg, created, last_10_messages, response,
                   started, aborts>>

\* the last-10 query
ReadWindow(p) ==
    /\ pc[p] = "window"
    /\ last_10_messages' = [last_10_messages EXCEPT ![p] = Last10(p)]
    /\ pc' = [pc EXCEPT ![p] = "commit"]
    /\ UNCHANGED <<users, messages, users_id_seq, messages_id_seq, msg, user,
                   created, rowlock, new_message, response, err, started, aborts,
                   committed_at_insert>>

CommitUsersAll(p) ==
    {[u EXCEPT !.last_msg_num = user[p].last_msg_num] : u \in users} \cup {user[p]}

\* users after COMMIT: the row of user[p] (inserted, or updated WHERE id =
\* user.id) replaces its former version, the other rows are untouched
CommitUsers(p) == {u \in users : u.id # user[p].id} \cup {user[p]}

\* leaving "async with db.begin()": COMMIT, then the response is built
Commit(p) ==
    /\ pc[p] = "commit"
    /\ users' = CommitUsers(p)
    /\ messages' = messages \cup {new_message[p]}
    /\ rowlock' = [rowlock EXCEPT ![p] = 0]
    /\ response' = [response EXCEPT ![p] = MessagesListResponse(last_10_messages[p])]
    /\ pc' = [pc EXCEPT ![p] = "done"]
    /\ UNCHANGED <<users_id_seq, messages_id_seq, msg, user, created,
                   new_message, last_10_messages, err, started, aborts,
                   committed_at_insert>>

\* a transient failure (connection loss, lock timeout, cancellation) inside
\* the transaction
Abort(p) ==
    /\ pc[p] \in InTxn
    /\ aborts < MaxAborts
    /\ aborts' = aborts + 1
    /\ Raise(p, "aborted")
    /\ UNCHANGED <<users_id_seq, messages_id_seq, msg, user, created,
                   new_message, last_10_messages, response, started,
                   committed_at_insert>>

Next ==
    \E p \in Procs :
        \/ Begin(p)
        \/ SelectForUpdate(p)
        \/ InsertUser(p)
        \/ FlushMessage(p)
        \/ ReadWindow(p)
        \/ Commit(p)
        \/ Abort(p)

Spec == Init /\ [][Next]_vars

\* The store after Backlog requests served one after the other: alice sent
\* the first Backlog - k of them and bob the last k; no request is running.
InitWindow ==
    \E k \in 0..1 :
        /\ users = {[id |-> 1, username |-> "alice", last_msg_num |-> Backlog - k]}
                   \cup (IF k = 0 THEN {}
                         ELSE {[id |-> 2, username |-> "bob", last_msg_num |-> k]})
        /\ messages =
              {[message_id |-> i, sender_name |-> "alice", text |-> "x",
                user_msg_num |-> i] : i \in 1..(Backlog - k)}
              \cup {[message_id |-> Backlog - k + i, sender_name |-> "bob",
                     text |-> "x", user_msg_num |-> i] : i \in 1..k}
        /\ users_id_seq = 1 + k
        /\ messages_id_seq = Backlog
        /\ pc = [p \in Procs |-> "idle"]
        /\ msg = [p \in Procs |-> NoRequest]
        /\ user = [p \in Procs |-> NoUser]
        /\ created = [p \in Procs |-> FALSE]
        /\ rowlock = [p \in Procs |-> 0]
        /\ new_message = [p \in Procs |-> NoMessage]
        /\ last_10_messages = [p \in Procs |-> <<>>]
        /\ response = [p \in Procs |-> <<>>]
        /\ err = [p \in Procs |-> ""]
        /\ started = 0
        /\ aborts = 0
        /\ committed_at_insert = [p \in Procs |-> {}]

SpecWindow == InitWindow /\ [][Next]_vars

\* server.py creates no table and loads no data: the store it is started on
\* is given to it.  Here that store holds a message (alice, 1) that alice's
\* counter does not account for: alice has no users row (k = 0) or a row
\* whose counter is still 0 (k = 1).  The schema's constraints hold.
InitDrift ==
    \E k \in 0..1 :
        /\ users = (IF k = 0 THEN {}
                    ELSE {[id |-> 1, username |-> "alice", last_msg_num |-> 0]})
        /\ messages = {[message_id |-> 1, sender_name |-> "alice", text |-> "x",
                        user_msg_num |-> 1]}
        /\ users_id_seq = k
        /\ messages_id_seq = 1
        /\ pc = [p \in Procs |-> "idle"]
        /\ msg = [p \in Procs |-> NoRequest]
        /\ user = [p \in Procs |-> NoUser]
        /\ created = [p \in Procs |-> FALSE]
        /\ rowlock = [p \in Procs |-> 0]
        /\ new_message = [p \in Procs |-> NoMessage]
        /\ last_10_messages = [p \in Procs |-> <<>>]
        /\ response = [p \in Procs |-> <<>>]
        /\ err = [p \in Procs |-> ""]
        /\ started = 0
        /\ aborts = 0
        /\ committed_at_insert = [p \in Procs |-> {}]

SpecDrift == InitDrift /\ [][Next]_vars

TypeOK ==
    /\ \A u \in users : u.id \in 1..users_id_seq
    /\ \A m \in messages : m.message_id \in 1..messages_id_seq
    /\ \A p \in Procs : pc[p] \in InTxn \cup {"idle", "done", "failed"}

\* ---- properties ----------------------------------------------------------

MessagesOf(s) == {m \in messages : m.sender_name = s}
SeqNumsOf(s) == {m.user_msg_num : m \in MessagesOf(s)}
RowsOf(s) == {u \in users : u.username = s}

\* C1: in every committed store state the sequence numbers of the committed
\* messages of each sender are exactly 1..N, N the number of those messages:
\* no duplicate, no gap, whatever the interleaving and the failures.
C1_GaplessSequence ==
    \A s \in Senders : SeqNumsOf(s) = 1..Cardinality(MessagesOf(s))

\* a sender with two committed messages, after a request has failed
C1_Witness ==
    /\ \E s \in Senders : Cardinality(MessagesOf(s)) >= 2
    /\ \E p \in Procs : pc[p] = "failed"

\* the counter value a request took before its increment
PreIncrement(p) ==
    IF pc[p] \in {"insert_user", "flush"}
    THEN user[p].last_msg_num
    ELSE user[p].last_msg_num - 1

HasCounter(p) == pc[p] \in {"insert_user", "flush", "window", "commit"}

\* C2: two concurrent requests of one sender never hold the same
\* pre-increment counter value, the initial 0 of a sender without a row
\* included: one takes k and the other k+1.
C2_DistinctPreIncrement ==
    \A p, q \in Procs :
        (p # q /\ HasCounter(p) /\ HasCounter(q)
              /\ msg[p].sender_name = msg[q].sender_name)
        => PreIncrement(p) # PreIncrement(q)

\* C3: when two requests of a sender without a row run concurrently (both
\* found no row) and no transient failure hits them, both commit: the sender
\* has a message numbered 1, a message numbered 2, and its counter is 2.
C3_BothFirstMessagesCommitted ==
    \A p, q \in Procs :
        (/\ p # q
         /\ msg[p].sender_name = msg[q].sender_name
         /\ created[p] /\ created[q]
         /\ pc[p] = "done"
         /\ pc[q] \in {"done", "failed"}
         /\ err[q] # "aborted")
        => /\ pc[q] = "done"
           /\ {1, 2} \subseteq SeqNumsOf(msg[p].sender_name)
           /\ \A u \in RowsOf(msg[p].sender_name) : u.last_msg_num >= 2

\* C4: there is never more than one users row per sender name, and the row
\* that appears for a new name carries the counter 1.
C4_OneRowPerName ==
    [][\A s \in Senders :
          /\ Cardinality(RowsOf(s)') <= 1
          /\ (RowsOf(s) = {} /\ RowsOf(s)' # {})
                => \A u \in RowsOf(s)' : u.last_msg_num = 1]_vars

\* two first requests for one new name have finished: one committed, the
\* other hit the unique index, and the name has one row
C4_Witness ==
    \E p, q \in Procs :
        /\ p # q /\ msg[p].sender_name = msg[q].sender_name
        /\ created[p] /\ pc[p] = "done"
        /\ created[q] /\ err[q] = "IntegrityError"
        /\ Cardinality(RowsOf(msg[p].sender_name)) = 1

CounterOf(s) == IF RowsOf(s) = {} THEN InitialMsgNum
                ELSE (CHOOSE u \in RowsOf(s) : TRUE).last_msg_num

\* C5: the committed counter of every sender row equals the number of
\* committed messages of that sender, and a step changes a counter only by
\* raising it by 1 together with one more message of that sender.
C5_CounterEqualsCount ==
    /\ [](\A u \in users : u.last_msg_num = Cardinality(MessagesOf(u.username)))
    /\ [][\A s \in Senders :
            \/ CounterOf(s)' = CounterOf(s) /\ MessagesOf(s)' = MessagesOf(s)
            \/ /\ CounterOf(s)' = CounterOf(s) + 1
               /\ Cardinality(MessagesOf(s)') = Cardinality(MessagesOf(s)) + 1]_vars

\* a counter that has reached 2 while a request of that sender was rolled
\* back after its increment
C5_Witness ==
    \E p \in Procs :
        /\ pc[p] = "failed" /\ new_message[p].message_id # 0
        /\ CounterOf(msg[p].sender_name) = 2

Ids(w) == {w[i].message_id : i \in 1..Len(w)}

\* C6: the window of a request (as read, and as returned in the response)
\* has at most 10 entries and none with a message_id above the id of the
\* message that request inserted.
C6_WindowBounded ==
    \A p \in Procs :
        /\ pc[p] \in {"commit", "done"} =>
              /\ Len(last_10_messages[p]) <= WindowLimit
              /\ \A i \in Ids(last_10_messages[p]) : i <= new_message[p].message_id
        /\ pc[p] = "done" =>
              /\ Len(response[p]) <= WindowLimit
              /\ \A i \in Ids(response[p]) : i <= new_message[p].message_id

\* a response of exactly 10 entries while a newer message is committed
C6_Witness ==
    \E p \in Procs :
        /\ pc[p] = "done"
        /\ Len(response[p]) = WindowLimit
        /\ \E m \in messages : m.message_id > new_message[p].message_id

\* w is the reference window of the rows S up to the id upto
IsReferenceWindow(w, S, upto) ==
    LET E == {m \in S : m.message_id <= upto} IN
    /\ Len(w) = Min(WindowLimit, Cardinality(E))
    /\ \A i \in 1..Len(w) : w[i] \in E
    /\ \A i, j \in 1..Len(w) : i < j => w[i].message_id > w[j].message_id
    /\ \A m \in E : (\A i \in 1..Len(w) : w[i] # m)
                        => \A i \in 1..Len(w) : m.message_id < w[i].message_id

C8_ResponseStartsWithOwn ==
    \A p \in Procs :
        pc[p] = "done" =>
           /\ Len(response[p]) >= 1
           /\ response[p][1] = MessageResponse(new_message[p])
           /\ response[p][1].sender_name = msg[p].sender_name
           /\ response[p][1].text = msg[p].text
           /\ response[p][1].user_msg_num = user[p].last_msg_num
           /\ response[p][1].user_msg_num =
                 Cardinality({m \in MessagesOf(msg[p].sender_name) :
                                 m.message_id <= new_message[p].message_id})

\* the answer to the third message of a sender, listing its first two
C8_Witness ==
    \E p \in Procs :
        /\ pc[p] = "done"
        /\ Len(response[p]) >= 3
        /\ response[p][1].user_msg_num = 3
        /\ \E i, j \in 2..Len(response[p]) :
              /\ response[p][i].sender_name = msg[p].sender_name
              /\ response[p][j].sender_name = msg[p].sender_name
              /\ response[p][i].user_msg_num = 2
              /\ response[p][j].user_msg_num = 1

\* C9: a request that fails leaves the committed users and messages as they
\* were, and the committed store never shows a counter without its message
\* or a message without its counter.
C9_FailureRollsBack ==
    /\ [][\A p \in Procs :
            (pc[p] \in InTxn /\ pc'[p] = "failed")
            => (users' = users /\ messages' = messages)]_vars
    /\ [](/\ \A u \in users : \E m \in messages :
                 m.sender_name = u.username /\ m.user_msg_num = u.last_msg_num
           /\ \A n \in messages : \E v \in users :
                 v.username = n.sender_name /\ v.last_msg_num >= n.user_msg_num)

\* one request was aborted after its increment and insert, another failed
\* on the unique index of users
C9_Witness ==
    \E p, q \in Procs :
        /\ pc[p] = "failed" /\ err[p] = "aborted"
        /\ new_message[p].message_id # 0
        /\ pc[q] = "failed" /\ err[q] = "IntegrityError"

\* the next statement of p's transaction
Step(p) ==
    \/ SelectForUpdate(p)
    \/ InsertUser(p)
    \/ FlushMessage(p)
    \/ ReadWindow(p)
    \/ Commit(p)

\* p's transaction is suspended in the database
Waiting(p) ==
    \/ pc[p] = "select" /\ SelectWaits(p)
    \/ pc[p] = "insert_user" /\ InsertUserWaits(p)
    \/ pc[p] = "flush" /\ FlushWaits(p)

\* the suspended transactions are those whose next statement cannot run
WaitingIsDisabled ==
    \A p \in Procs : pc[p] \in InTxn => (Waiting(p) <=> ~ENABLED Step(p))

\* C10: a transaction that cannot take its next step is held up by a
\* running transaction of the same sender name; transactions of other
\* senders never hold it up.
C10_NoCrossSenderBlocking ==
    \A p \in Procs :
        Waiting(p) =>
            \E q \in Procs \ {p} :
                /\ pc[q] \in Flushed
                /\ msg[q].sender_name = msg[p].sender_name

\* p waits for q of its own sender while r, of another sender, holds its
\* lock and can go on
C10_Witness ==
    \E p, q, r \in Procs :
        /\ Waiting(p)
        /\ pc[q] \in Flushed /\ msg[q].sender_name = msg[p].sender_name
        /\ pc[r] \in Flushed /\ msg[r].sender_name # msg[p].sender_name
        /\ rowlock[r] # 0
        /\ ~Waiting(r)

\* C11 as stated: message_id order across senders is commit order: when a
\* transaction commits, every committed message of another sender has a
\* smaller message_id than the message being committed.
C11_IdReflectsCommitOrder ==
    [][\A p \in Procs :
          (pc[p] = "commit" /\ pc'[p] = "done")
          => \A m \in messages :
                m.sender_name # new_message[p].sender_name
                => m.message_id < new_message[p].message_id]_vars

\* C11 amended: message_id order across senders is the order of the INSERTs
\* into messages, not of the commits: the id given to an INSERT is above
\* the id of every message of another sender inserted before it, committed
\* or not.
C11_IdReflectsInsertOrder ==
    [][\A p \in Procs :
          (pc[p] = "flush" /\ pc'[p] = "window")
          => \A m \in messages \cup {new_message[q] : q \in Procs \ {p}} :
                m.sender_name # msg[p].sender_name
                => m.message_id < new_message'[p].message_id]_vars

\* q has committed a message while p, of another sender, holds an
\* uncommitted message with a smaller id
C11_Witness ==
    \E p, q \in Procs :
        /\ pc[q] = "done" /\ new_message[q] \in messages
        /\ pc[p] \in {"window", "commit"}
        /\ msg[p].sender_name # msg[q].sender_name
        /\ new_message[p].message_id < new_message[q].message_id

\* a committed message already carries the number p's INSERT is about to use
Collides(p) ==
    \E m \in messages :
        /\ m.sender_name = msg[p].sender_name
        /\ m.user_msg_num = user[p].last_msg_num + 1

\* C12: an INSERT that collides on (sender_name, user_msg_num) ends the
\* request with an error and leaves users and messages unchanged; it is not
\* completed with another number: every message that gets committed carries
\* the counter value of its own transaction, one above the committed counter,
\* and no committed message shares its (sender_name, user_msg_num).
C12_ViolationFailsNoBump ==
    /\ [][\A p \in Procs :
            (pc[p] = "flush" /\ pc'[p] # "flush" /\ Collides(p))
            => /\ pc'[p] = "failed"
               /\ err'[p] \in {"IntegrityError", "aborted"}
               /\ users' = users /\ messages' = messages]_vars
    /\ [][\A p \in Procs :
            (pc[p] = "commit" /\ pc'[p] = "done")
            => /\ messages' \ messages = {new_message[p]}
               /\ new_message[p].user_msg_num = user[p].last_msg_num
               /\ new_message[p].user_msg_num = CounterOf(msg[p].sender_name) + 1
               /\ \A m \in messages :
                     m.sender_name = new_message[p].sender_name
                     => m.user_msg_num # new_message[p].user_msg_num]_vars

\* a request failed on uq_sender_msgnum at its flush, after it had its
\* users row
C12_Witness ==
    \E p \in Procs :
        /\ pc[p] = "failed" /\ err[p] = "IntegrityError"
        /\ user[p].id # 0
        /\ new_message[p] = NoMessage
        /\ \E m \in messages :
              /\ m.sender_name = msg[p].sender_name
              /\ m.user_msg_num = user[p].last_msg_num + 1

\* p's transaction is hit by a transient failure in this step
TransientFailure(p) == pc[p] \in InTxn /\ err[p] # "aborted" /\ err'[p] = "aborted"

\* C13 as stated: a transaction hit by a transient failure is re-run from
\* the locked read of the sender row, within the same request.
C13_RetriedFromSelect ==
    [][\A p \in Procs :
          TransientFailure(p) => (pc'[p] = "select" /\ started' = started)]_vars

\* C13 amended: a transaction hit by a transient failure is rolled back and
\* its request ends with an error; nothing re-runs it: the request leaves
\* the failed state only when a new request is received, and its message is
\* not in the store.
C13_TransientFailureSurfaces ==
    /\ [][\A p \in Procs :
            TransientFailure(p)
            => (pc'[p] = "failed" /\ users' = users /\ messages' = messages)]_vars
    /\ [][\A p \in Procs :
            (pc[p] = "failed" /\ pc'[p] # "failed")
            => /\ pc'[p] = "select"
               /\ started' = started + 1
               /\ new_message'[p] = NoMessage]_vars
    /\ [](\A p \in Procs :
            (pc[p] = "failed" /\ err[p] = "aborted") => new_message[p] \notin messages)

\* a request aborted after its insert has lost its message while a later
\* request has committed
C13_Witness ==
    \E p, q \in Procs :
        /\ pc[p] = "failed" /\ err[p] = "aborted"
        /\ new_message[p].message_id # 0
        /\ new_message[p] \notin messages
        /\ pc[q] = "done"
        /\ new_message[q].message_id > new_message[p].message_id

\* p acquires the lock of its sender's row in this step
AcquiresLock(p) == rowlock[p] = 0 /\ rowlock'[p] # 0

\* C15: acceptance order of one sender is lock order.  The row lock is
\* exclusive and held up to the commit; when a transaction acquires it,
\* every committed message of the sender (those of all earlier holders that
\* committed) has a number below the one the acquirer will assign, and the
\* acquirer commits exactly that number, above all committed ones.
C15_AcceptanceFollowsLockOrder ==
    /\ [](\A p, q \in Procs :
            (p # q /\ rowlock[p] # 0) => rowlock[q] # rowlock[p])
    /\ [][\A p \in Procs :
            AcquiresLock(p)
            => \A m \in MessagesOf(msg[p].sender_name) :
                  m.user_msg_num < user'[p].last_msg_num + 1]_vars
    /\ [][\A p \in Procs :
            (pc[p] = "commit" /\ pc'[p] = "done")
            => /\ rowlock[p] = user[p].id
               /\ \A m \in MessagesOf(msg[p].sender_name) :
                     m.user_msg_num < new_message[p].user_msg_num]_vars

\* q has committed; p then took the lock of the same row and read the
\* counter q left, while a third request waits for p
C15_Witness ==
    \E p, q, r \in Procs :
        /\ p # q /\ msg[p].sender_name = msg[q].sender_name
        /\ pc[q] = "done" /\ new_message[q] \in messages
        /\ pc[p] = "flush" /\ ~created[p] /\ rowlock[p] # 0
        /\ user[p].last_msg_num = new_message[q].user_msg_num
        /\ r # p /\ pc[r] = "select" /\ SelectWaits(r)

OtherEntries(p) == Ids(last_10_messages[p]) \ {new_message[p].message_id}

\* C16 as stated: every entry of a request's window other than its own
\* message was committed before the request inserted its message.
C16_WindowCommittedBeforeInsert ==
    \A p \in Procs :
        pc[p] \in {"commit", "done"} => OtherEntries(p) \subseteq committed_at_insert[p]

\* C16 amended: every entry of a request's window other than its own
\* message is a message committed when the window query runs (before or
\* after the request's own insert) with a smaller id; a message of a
\* transaction still uncommitted at the read is never in the window.
C16_WindowCommittedBeforeRead ==
    [][\A p \in Procs :
          (pc[p] = "window" /\ pc'[p] = "commit")
          => \A i \in 1..Len(last_10_messages'[p]) :
                LET e == last_10_messages'[p][i] IN
                e # new_message[p]
                => /\ e \in messages
                   /\ e.message_id < new_message[p].message_id
                   /\ \A q \in Procs \ {p} :
                         pc[q] \in {"window", "commit"} => e # new_message[q]]_vars

\* a window holding a message that was committed after the request's own
\* insert
C16_Witness ==
    \E p \in Procs :
        /\ pc[p] = "commit"
        /\ \E i \in OtherEntries(p) :
              /\ i \notin committed_at_insert[p]
              /\ i < new_message[p].message_id

\* C17: messages is append-only and a commit touches one sender: no step
\* removes or alters a committed message or removes a users row; a commit of
\* sender S adds exactly one message, of S, and leaves the users row of
\* every other sender as it was; no other step changes users or messages.
C17_AppendOnlyOneSender ==
    [][/\ messages \subseteq messages'
       /\ \A u \in users : \E v \in users' : v.id = u.id /\ v.username = u.username
       /\ \A p \in Procs :
             IF pc[p] = "commit" /\ pc'[p] = "done"
             THEN /\ Cardinality(messages' \ messages) = 1
                  /\ \A m \in messages' \ messages :
                        m.sender_name = msg[p].sender_name /\ m.text = msg[p].text
                  /\ \A u \in users :
                        u.username # msg[p].sender_name => u \in users'
                  /\ \A v \in users' :
                        v.username # msg[p].sender_name => v \in users
             ELSE (\A q \in Procs : ~(pc[q] = "commit" /\ pc'[q] = "done"))
                  => (users' = users /\ messages' = messages)]_vars

\* a request has committed while the other sender has a row and a message,
\* which its response lists unchanged
C17_Witness ==
    \E p \in Procs :
        /\ pc[p] = "done" /\ Len(response[p]) >= 2
        /\ response[p][2].sender_name # msg[p].sender_name
        /\ response[p][2] \in messages
        /\ CounterOf(response[p][2].sender_name) >= 1
        /\ CounterOf(msg[p].sender_name) >= 2

\* C18: a request holds a users row lock only inside its transaction, after
\* the statement that took it: a request that has not begun, has committed,
\* or has failed and been rolled back holds no lock.
C18_LockReleasedOnExit ==
    \A p \in Procs :
        /\ pc[p] \in {"idle", "done", "failed"} => rowlock[p] = 0
        /\ rowlock[p] # 0 => (pc[p] \in Flushed /\ rowlock[p] = user[p].id)

\* a request failed while it held the lock of its sender's row, and another
\* request has taken that lock since
C18_Witness ==
    \E p, q \in Procs :
        /\ pc[p] = "failed" /\ ~created[p] /\ user[p].id # 0
        /\ rowlock[p] = 0
        /\ q # p /\ rowlock[q] = user[p].id

\* C19: for two committed messages of one sender, the one with the smaller
\* sequence number is the one with the smaller message_id.
C19_SeqOrderIsIdOrder ==
    \A m1, m2 \in messages :
        m1.sender_name = m2.sender_name
        => (m1.user_msg_num < m2.user_msg_num <=> m1.message_id < m2.message_id)

\* a sender has two committed messages whose ids are not consecutive:
\* a request of the other sender, or a rolled back one, drew an id between
C19_Witness ==
    \E m1, m2 \in messages :
        /\ m1.sender_name = m2.sender_name
        /\ m2.user_msg_num = m1.user_msg_num + 1
        /\ m2.message_id > m1.message_id + 1
        /\ \E p \in Procs :
              /\ pc[p] = "failed"
              /\ new_message[p].message_id > m1.message_id
              /\ new_message[p].message_id < m2.message_id

\* the requests of the termination check: Begin, up to MaxLiveRequests
BeginLive(p) == started < MaxLiveRequests /\ Begin(p)

NextLive ==
    \E p \in Procs :
        \/ BeginLive(p)
        \/ SelectForUpdate(p)
        \/ InsertUser(p)
        \/ FlushMessage(p)
        \/ ReadWindow(p)
        \/ Commit(p)
        \/ Abort(p)

\* whenever some transaction can run its next statement, one of them does:
\* the event loop resumes ready coroutines and the database wakes the
\* waiter of a released lock
FairSpec == Init /\ [][NextLive]_vars /\ WF_vars(\E p \in Procs : Step(p))

\* the transactions p is waiting for
Blockers(p) ==
    {q \in Procs \ {p} :
        \/ /\ pc[p] = "select" /\ SelectWaits(p)
           /\ rowlock[q] # 0
           /\ \E u \in RowsOf(msg[p].sender_name) : u.id = rowlock[q]
        \/ /\ pc[p] = "insert_user" /\ InsertUserWaits(p)
           /\ pc[q] \in Flushed /\ created[q] /\ user[q].username = user[p].username
        \/ /\ pc[p] = "flush" /\ FlushWaits(p)
           /\ \/ rowlock[q] = user[p].id
              \/ /\ pc[q] \in {"window", "commit"}
                 /\ new_message[q].sender_name = msg[p].sender_name}

\* a waiting transaction holds no lock and waits for exactly one
\* transaction, which is not waiting
NoHoldAndWait ==
    \A p \in Procs :
        Waiting(p) => /\ rowlock[p] = 0
                      /\ Cardinality(Blockers(p)) = 1
                      /\ \A q \in Blockers(p) : ~Waiting(q)

====
